---- MODULE Spec2Model ----
(***************************************************************************)
(* go-ipfs-cmds: the chan response stream (chanStream, with its            *)
(* chanResponseEmitter and chanResponse halves) and the CLI response       *)
(* emitter (cli.responseEmitter), as state machines over goroutines.       *)
(*                                                                         *)
(* Spec     the chan stream under arbitrary concurrent use                 *)
(* SpecChan the same, with channels of values emitted too                  *)
(* SpecSeq  the chan stream with one producer (Emit* then Close), one      *)
(*          consumer and a context that is never cancelled                 *)
(* SpecCLI  the CLI emitter under arbitrary concurrent use                 *)
(* SpecNested  channels of values emitted on either emitter                *)
(***************************************************************************)
EXTENDS Integers, Sequences, FiniteSets, TLC

\* ------------------------------------------------------------------ bounds
\* values handed to Emit over the life of one stream
MaxEmits == 2
\* Close/CloseWithError calls made on one stream
MaxCloses == 2
\* Next calls made on one stream
MaxNexts == 3
\* largest length given to SetLength
MaxLength == 1
\* calls made on one CLI emitter
MaxCliCalls == 4
\* largest code given to Exit
MaxCode == 2

\* ------------------------------------------------------------ goroutines
Writers == {"w1", "w2"}
Readers == {"r1", "r2"}
Procs == Writers \cup Readers
\* goroutines that use the CLI emitter
CliProcs == {"g1", "g2", "g3"}
NoOne == "-"

\* --------------------------------------------------------- result values
Nil == "nil"
EOF == "io.EOF"
Boom == "boom"
ErrClosedEmitter == "cmds: emit on closed emitter"
ErrClosingClosed == "closing closed emitter"
ErrClosingClosedEmitter == "closing closed responseemitter"
WriteErr == "write error"
SyncErr == "sync error"
CtxErr == "context canceled"
Panic == "panic"
NoArg == [op |-> "none"]

\* the value kinds Emit distinguishes
Plain == "plain"
SingleKind == "Single"
\* and the raw byte source the CLI emitter copies
ReaderKind == "io.Reader"
\* a channel of values, which Emit hands to EmitChan
ChanKind == "chan"

VARIABLES
    \* chanStream fields
    closed,     \* closed bool
    err,        \* err error (Nil until a close records it)
    ch,         \* ch chan interface{}: "open" or "closed" (unbuffered)
    wait,       \* wait chan struct{}: "open" or "closed"
    waitCloses, \* how often close(re.wait) was executed
    length,     \* length uint64
    wl,         \* wl sync.Mutex: the goroutine holding it, or NoOne
    rl,         \* rl sync.Mutex: the goroutine holding it, or NoOne
    ctxDone,    \* req.Context is cancelled
    \* goroutines
    pc,         \* where each goroutine stands in its current call
    arg,        \* the argument (or, for Next, the received value) of that call
    res,        \* the result the goroutine's current call is about to return
    \* history
    nextVal,    \* the next fresh value handed to Emit
    kinds,      \* the kind each value was emitted with
    nextLog,    \* results of the Next calls, in the order they returned
    emitLog,    \* values whose Emit returned nil, in the order they returned
    closeOK,    \* Close/CloseWithError calls that returned nil
    closeFail,  \* Close/CloseWithError calls that returned an error
    autoClosed, \* an Emit of a Single closed the open stream
    lastRead,   \* what the last Error() or Length() call returned
    lastChan,   \* what the last Emit of a channel returned
    \* cli.responseEmitter fields
    cliClosed,  \* closed bool
    exit,       \* exit int
    l,          \* l sync.Mutex: the goroutine holding it, or NoOne
    exitCh,     \* ch chan<- int: "open" or "closed" (unbuffered)
    stdout,     \* stdout io.Writer: "set" or "nil"
    stderr,     \* stderr io.Writer: "set" or "nil"
    \* goroutines of the CLI emitter
    cpc,        \* where each goroutine stands in its current call
    carg,       \* the call it is in
    \* history of the CLI emitter
    cliCalls,   \* calls made so far
    sent,       \* the codes received from the exit channel, in order
    chCloses,   \* how often the exit channel was closed
    flushes,    \* how often close() went on to sync the sinks
    diag,       \* diagnostic lines written to stderr
    written,    \* values written to stdout
    cliCloseOK, \* Close/CloseWithError calls that returned nil
    cliLast,    \* the last result of a Close/CloseWithError call
    enc,        \* enc cmds.Encoder: "none", or the writer it was built on
    sink,       \* what was done to stdout: copies, encodings, lines
    cliLastChan \* what the last Emit of a channel returned

vars == <<closed, err, ch, wait, waitCloses, length, wl, rl, ctxDone, pc, arg, res,
          nextVal, kinds, nextLog, emitLog, closeOK, closeFail, autoClosed,
          lastRead, lastChan,
          cliClosed, exit, l, exitCh, stdout, stderr, cpc, carg, cliCalls,
          sent, chCloses, flushes, diag, written, cliCloseOK, cliLast,
          enc, sink, cliLastChan>>

\* the chan stream and its goroutines
chan == <<closed, err, ch, wait, waitCloses, length, wl, rl, ctxDone, pc, arg, res,
          nextVal, kinds, nextLog, emitLog, closeOK, closeFail, autoClosed,
          lastRead, lastChan>>
\* the CLI emitter and its goroutines
cli == <<cliClosed, exit, l, exitCh, stdout, stderr, cpc, carg, cliCalls,
         sent, chCloses, flushes, diag, written, cliCloseOK, cliLast,
         enc, sink, cliLastChan>>
cliHistory == <<sent, chCloses, flushes, diag, written, cliCloseOK, cliLast,
                sink, cliLastChan>>
\* what Emit writes to, and what it has written
output == <<written, enc, sink, cliLastChan>>

stream == <<closed, err, ch, wait, waitCloses, length>>
history == <<nextVal, kinds, nextLog, emitLog, closeOK, closeFail,
             autoClosed, lastRead, lastChan>>

Values == 1..MaxEmits

\* NewChanResponsePair: open stream, nothing emitted, length 0.
\* cli.NewResponseEmitter: open emitter, exit code 0, both sinks set.
Init ==
    /\ closed = FALSE
    /\ err = Nil
    /\ ch = "open"
    /\ wait = "open"
    /\ waitCloses = 0
    /\ length = 0
    /\ wl = NoOne
    /\ rl = NoOne
    /\ ctxDone = FALSE
    /\ pc = [p \in Procs |-> "idle"]
    /\ arg = [p \in Procs |-> NoArg]
    /\ res = [p \in Procs |-> Nil]
    /\ nextVal = 1
    /\ kinds = [v \in Values |-> "none"]
    /\ nextLog = <<>>
    /\ emitLog = <<>>
    /\ closeOK = 0
    /\ closeFail = 0
    /\ autoClosed = FALSE
    /\ lastRead = [op |-> "none", val |-> 0]
    /\ lastChan = [afterClose |-> FALSE, end |-> "none", res |-> "none"]
    /\ cliClosed = FALSE
    /\ exit = 0
    /\ l = NoOne
    /\ exitCh = "open"
    /\ stdout = "set"
    /\ stderr = "set"
    /\ cpc = [p \in CliProcs |-> "idle"]
    /\ carg = [p \in CliProcs |-> NoArg]
    /\ cliCalls = 0
    /\ sent = <<>>
    /\ chCloses = 0
    /\ flushes = 0
    /\ diag = 0
    /\ written = 0
    /\ cliCloseOK = 0
    /\ cliLast = [op |-> "none", late |-> FALSE, res |-> Nil]
    /\ enc = "none"
    /\ sink = <<>>
    /\ cliLastChan = [end |-> "none", res |-> "none"]

\* ------------------------------------------------------------- helpers
\* (mutant) nil is recorded as it is given
TermErrKeepsNil(e) == e

\* closeWithError lines 442-450: nil is recorded as io.EOF
TermErr(e) == IF e = Nil THEN EOF ELSE e

\* (mutant) closeWithError with close(re.wait) outside the select of lines
\* 454-458
closeWithErrorUnguarded(e) ==
    /\ closed' = TRUE
    /\ err' = TermErr(e)
    /\ IF ch = "closed"
       THEN UNCHANGED <<ch, wait, waitCloses>>
       ELSE /\ ch' = "closed"
            /\ wait' = "closed"
            /\ waitCloses' = waitCloses + 1

\* closeWithError: closed, err, close(re.ch), then the guarded close(re.wait).
\* close(re.ch) on a closed channel panics after closed and err are written.
closeWithError(e) ==
    /\ closed' = TRUE
    /\ err' = TermErr(e)
    /\ IF ch = "closed"
       THEN UNCHANGED <<ch, wait, waitCloses>>
       ELSE /\ ch' = "closed"
            /\ wait' = "closed"
            /\ waitCloses' = IF wait = "open" THEN waitCloses + 1
                                              ELSE waitCloses

\* What travels over re.ch: the value, and whether it is wrapped in a Single
Payload(k, v) == [single |-> (k = SingleKind), v |-> v]

\* the nil value Next returns beside an error
NoVal == [single |-> FALSE, v |-> 0]

\* Next lines 350-355: a Single is unwrapped to its Value, anything else is
\* returned as it came
Unwrap(x) == IF x.single THEN [single |-> FALSE, v |-> x.v] ELSE x

\* Error lines 311-319
ErrorOf(e) == IF e = Nil \/ e = EOF THEN Nil ELSE e

\* a goroutine enters a call
Call(p, label, a) ==
    /\ pc[p] = "idle"
    /\ pc' = [pc EXCEPT ![p] = label]
    /\ arg' = [arg EXCEPT ![p] = a]

\* a goroutine leaves its call
Return(p) ==
    /\ pc' = [pc EXCEPT ![p] = "idle"]
    /\ arg' = [arg EXCEPT ![p] = NoArg]

\* ------------------------------------------------- write side: Emit
\* a Close or CloseWithError call has returned
CloseCompleted == closeOK + closeFail > 0

\* Emit lines 372-399 for a fresh value of kind k: take wl, fire the ready
\* signal, check closed.  (A goroutine waiting for wl has done nothing yet,
\* so the call starts where it gets the lock.)  from: the caller, NoArg or
\* the EmitChan call that reads a channel.
EmitLocked(w, k, from) ==
    /\ nextVal <= MaxEmits
    /\ wl = NoOne
    /\ pc' = [pc EXCEPT ![w] = IF closed THEN "EmitReturn" ELSE "EmitSend"]
    /\ arg' = [arg EXCEPT ![w] = [op |-> "Emit", kind |-> k, v |-> nextVal,
                                   from |-> from]]
    /\ nextVal' = nextVal + 1
    /\ kinds' = [kinds EXCEPT ![nextVal] = k]
    /\ wl' = w
    /\ wait' = "closed"
    /\ waitCloses' = IF wait = "open" THEN waitCloses + 1 ELSE waitCloses
    /\ res' = [res EXCEPT ![w] = IF closed THEN ErrClosedEmitter ELSE Nil]
    /\ UNCHANGED <<closed, err, ch, length, rl, ctxDone, nextLog, emitLog,
                   closeOK, closeFail, autoClosed, lastRead, lastChan>>
    /\ UNCHANGED cli

\* Emit(v), v a plain value or a Single
Emit(w, k) ==
    /\ pc[w] = "idle"
    /\ EmitLocked(w, k, NoArg)

\* Emit(v), v a channel of values: lines 365-370 hand it to EmitChan before
\* wl is taken and before closed is looked at.  afterClose: the call is made
\* after a Close or CloseWithError has returned.
CallEmitChan(w) ==
    /\ Call(w, "EmitChan", [op |-> "EmitChan", afterClose |-> CloseCompleted])
    /\ UNCHANGED <<stream, wl, rl, ctxDone, res, history>>
    /\ UNCHANGED cli

\* EmitChan: the nested stream yields one more element, of kind k, which is
\* handed to Emit
EmitChanElem(w, k) ==
    /\ pc[w] = "EmitChan"
    /\ EmitLocked(w, k, arg[w])

\* EmitChan: the nested stream ends with outcome e, which is the result of
\* the call
EmitChanEnd(w, e) ==
    /\ pc[w] = "EmitChan"
    /\ Return(w)
    /\ lastChan' = [afterClose |-> arg[w].afterClose, end |-> e, res |-> e]
    /\ UNCHANGED <<stream, wl, rl, ctxDone, res, nextVal, kinds, nextLog,
                   emitLog, closeOK, closeFail, autoClosed, lastRead>>
    /\ UNCHANGED cli

\* Emit line 404 with Next line 345: the unbuffered channel hands the value
\* from the sender blocked in its select to the receiver blocked in its own.
EmitSend(w, r) ==
    /\ pc[w] = "EmitSend"
    /\ pc[r] = "NextRecv"
    /\ ch = "open"
    /\ pc' = [pc EXCEPT ![w] = "EmitReturn", ![r] = "NextReturn"]
    /\ res' = [res EXCEPT ![w] = Nil]
    /\ arg' = [arg EXCEPT ![r] = [op |-> "Next",
                                   got |-> Payload(arg[w].kind, arg[w].v)]]
    /\ UNCHANGED <<stream, wl, rl, ctxDone, history>>
    /\ UNCHANGED cli

\* Emit lines 406-407: the select takes ctx.Done()
EmitCancel(w) ==
    /\ pc[w] = "EmitSend"
    /\ ctxDone
    /\ pc' = [pc EXCEPT ![w] = "EmitReturn"]
    /\ res' = [res EXCEPT ![w] = CtxErr]
    /\ UNCHANGED <<stream, wl, rl, ctxDone, arg, history>>
    /\ UNCHANGED cli

\* Where Emit returns to: its caller, or the loop of EmitChan, which goes on
\* when the result is nil and returns the error to its own caller otherwise.
EmitReturnTo(w) ==
    /\ res' = [res EXCEPT ![w] = Nil]
    /\ IF arg[w].from.op = "EmitChan" /\ res[w] = Nil
       THEN /\ pc' = [pc EXCEPT ![w] = "EmitChan"]
            /\ arg' = [arg EXCEPT ![w] = arg[w].from]
       ELSE Return(w)
    /\ lastChan' = IF arg[w].from.op = "EmitChan" /\ res[w] # Nil
                   THEN [afterClose |-> arg[w].from.afterClose, end |-> "none",
                         res |-> res[w]]
                   ELSE lastChan

\* (mutant) Emit without the deferred closeWithError of line 376
EmitReturnNoAutoClose(w) ==
    /\ pc[w] = "EmitReturn"
    /\ wl' = NoOne
    /\ EmitReturnTo(w)
    /\ emitLog' = IF res[w] = Nil THEN Append(emitLog, arg[w].v) ELSE emitLog
    /\ UNCHANGED <<closed, err, ch, wait, waitCloses, autoClosed, length, rl, ctxDone,
                   nextVal, kinds, nextLog, closeOK, closeFail, lastRead>>
    /\ UNCHANGED cli

\* Emit's deferred calls, in LIFO order: closeWithError(nil) when v is a
\* Single (line 376), then wl.Unlock (line 373).  closeWithError panics in
\* close(re.ch) when the stream was closed already; the unlock still runs
\* and the goroutine never returns from Emit.
EmitReturn(w) ==
    /\ pc[w] = "EmitReturn"
    /\ wl' = NoOne
    /\ IF arg[w].kind = SingleKind
       THEN /\ closeWithError(Nil)
            /\ autoClosed' = (autoClosed \/ ~closed)
            /\ IF ch = "closed"
               THEN /\ pc' = [pc EXCEPT ![w] = "panicked"]
                    /\ res' = [res EXCEPT ![w] = Panic]
                    /\ UNCHANGED <<arg, lastChan>>
               ELSE EmitReturnTo(w)
       ELSE /\ EmitReturnTo(w)
            /\ UNCHANGED <<closed, err, ch, wait, waitCloses, autoClosed>>
    /\ emitLog' = IF res[w] = Nil THEN Append(emitLog, arg[w].v) ELSE emitLog
    /\ UNCHANGED <<length, rl, ctxDone, nextVal, kinds, nextLog, closeOK,
                   closeFail, lastRead>>
    /\ UNCHANGED cli

\* ------------------------------- write side: Close, CloseWithError
CloseCalls == closeOK + closeFail
                + Cardinality({w \in Writers : pc[w] = "CloseWithError"})

\* A goroutine calls CloseWithError, or Close, which is CloseWithError(nil)
\* (line 412).  Line 428: it waits for wl.
CallClose(w) ==
    /\ CloseCalls < MaxCloses
    /\ Call(w, "CloseWithError", [op |-> "CloseWithError"])
    /\ UNCHANGED <<stream, wl, rl, ctxDone, res, history>>
    /\ UNCHANGED cli

\* (mutant) CloseWithError without the check of closed in line 431
CloseWithErrorUnchecked(w, e) ==
    /\ pc[w] = "CloseWithError"
    /\ wl = NoOne
    /\ closeWithError(e)
    /\ closeOK' = closeOK + 1
    /\ Return(w)
    /\ UNCHANGED <<length, wl, rl, ctxDone, res, nextVal, kinds, nextLog,
                   emitLog, closeFail, autoClosed, lastRead, lastChan>>
    /\ UNCHANGED cli

\* (mutant) CloseWithError that takes the read lock too
CloseWithErrorTakesReadLock(w, e) ==
    /\ pc[w] = "CloseWithError"
    /\ wl = NoOne
    /\ rl = NoOne
    /\ IF closed
       THEN /\ closeFail' = closeFail + 1
            /\ UNCHANGED <<closed, err, ch, wait, waitCloses, closeOK>>
       ELSE /\ closeWithError(e)
            /\ closeOK' = closeOK + 1
            /\ UNCHANGED closeFail
    /\ Return(w)
    /\ UNCHANGED <<length, wl, rl, ctxDone, res, nextVal, kinds, nextLog,
                   emitLog, autoClosed, lastRead, lastChan>>
    /\ UNCHANGED cli

\* CloseWithError(e) lines 428-437, all of it under wl
CloseWithError(w, e) ==
    /\ pc[w] = "CloseWithError"
    /\ wl = NoOne
    /\ IF closed
       THEN /\ closeFail' = closeFail + 1
            /\ UNCHANGED <<closed, err, ch, wait, waitCloses, closeOK>>
       ELSE /\ closeWithError(e)
            /\ closeOK' = closeOK + 1
            /\ UNCHANGED closeFail
    /\ Return(w)
    /\ UNCHANGED <<length, wl, rl, ctxDone, res, nextVal, kinds, nextLog,
                   emitLog, autoClosed, lastRead, lastChan>>
    /\ UNCHANGED cli

\* ------------------------------------------ write side: SetLength
\* (mutant) SetLength without the check of the ready signal in line 421
SetLengthAlways(w, n) ==
    /\ pc[w] = "idle"
    /\ wl = NoOne
    /\ length' = n
    /\ UNCHANGED <<closed, err, ch, wait, waitCloses, wl, rl, ctxDone, pc, arg, res,
                   history>>
    /\ UNCHANGED cli

\* SetLength(n) lines 415-425, all of it under wl
SetLength(w, n) ==
    /\ pc[w] = "idle"
    /\ wl = NoOne
    /\ length' = IF wait = "open" THEN n ELSE length
    /\ UNCHANGED <<closed, err, ch, wait, waitCloses, wl, rl, ctxDone, pc, arg, res,
                   history>>
    /\ UNCHANGED cli

\* --------------------------------------------------- read side: Next
NextCalls == Len(nextLog)
               + Cardinality({r \in Readers : pc[r] \in {"NextRecv", "NextReturn"}})

\* (mutant) Next without rl: readers are not serialized
NextLockUnserialized(r) ==
    /\ NextCalls < MaxNexts
    /\ Call(r, "NextRecv", [op |-> "Next"])
    /\ rl' = r
    /\ UNCHANGED <<stream, wl, ctxDone, res, history>>
    /\ UNCHANGED cli

\* Next lines 328-344: take rl and block in the select.  (The receiver is not
\* nil: line 329 is the released-handle case.)
NextLock(r) ==
    /\ NextCalls < MaxNexts
    /\ rl = NoOne
    /\ Call(r, "NextRecv", [op |-> "Next"])
    /\ rl' = r
    /\ UNCHANGED <<stream, wl, ctxDone, res, history>>
    /\ UNCHANGED cli

\* Next lines 345-348: the channel is closed, the result is r.err
NextClosed(r) ==
    /\ pc[r] = "NextRecv"
    /\ ch = "closed"
    /\ rl' = NoOne
    /\ Return(r)
    /\ nextLog' = Append(nextLog, [val |-> NoVal, err |-> err])
    /\ UNCHANGED <<stream, wl, ctxDone, res, nextVal, kinds, emitLog,
                   closeOK, closeFail, autoClosed, lastRead, lastChan>>
    /\ UNCHANGED cli

\* Next lines 356-357: the select takes ctx.Done()
NextCancel(r) ==
    /\ pc[r] = "NextRecv"
    /\ ctxDone
    /\ rl' = NoOne
    /\ Return(r)
    /\ nextLog' = Append(nextLog, [val |-> NoVal, err |-> CtxErr])
    /\ UNCHANGED <<stream, wl, ctxDone, res, nextVal, kinds, emitLog,
                   closeOK, closeFail, autoClosed, lastRead, lastChan>>
    /\ UNCHANGED cli

\* Next lines 350-355 and the deferred rl.Unlock: return the received value
NextReturn(r) ==
    /\ pc[r] = "NextReturn"
    /\ rl' = NoOne
    /\ Return(r)
    /\ nextLog' = Append(nextLog, [val |-> Unwrap(arg[r].got), err |-> Nil])
    /\ UNCHANGED <<stream, wl, ctxDone, res, nextVal, kinds, emitLog,
                   closeOK, closeFail, autoClosed, lastRead, lastChan>>
    /\ UNCHANGED cli

\* ------------------------------------------ read side: Error, Length
\* Error lines 308-320: blocks on <-r.wait, then reads r.err
Error(r) ==
    /\ pc[r] = "idle"
    /\ wait = "closed"
    /\ lastRead' = [op |-> "Error", val |-> ErrorOf(err)]
    /\ UNCHANGED <<stream, wl, rl, ctxDone, pc, arg, res, nextVal, kinds,
                   nextLog, emitLog, closeOK, closeFail, autoClosed, lastChan>>
    /\ UNCHANGED cli

\* Length lines 322-326: blocks on <-r.wait, then reads r.length
Length(r) ==
    /\ pc[r] = "idle"
    /\ wait = "closed"
    /\ lastRead' = [op |-> "Length", val |-> length]
    /\ UNCHANGED <<stream, wl, rl, ctxDone, pc, arg, res, nextVal, kinds,
                   nextLog, emitLog, closeOK, closeFail, autoClosed, lastChan>>
    /\ UNCHANGED cli

\* ------------------------------------------------------ the context
\* The request's context is cancelled by its owner.
Cancel ==
    /\ ~ctxDone
    /\ ctxDone' = TRUE
    /\ UNCHANGED <<stream, wl, rl, pc, arg, res, history>>
    /\ UNCHANGED cli

\* =========================================================== CLI emitter
\* The owner of the exit channel (main) is ready to receive whenever a
\* goroutine is blocked in the send of line 122.

\* a goroutine enters a call on the CLI emitter.  late: a Close or
\* CloseWithError had completed when the call was made.
CliCall(p, label, a) ==
    /\ cpc[p] = "idle"
    /\ cliCalls < MaxCliCalls
    /\ cliCalls' = cliCalls + 1
    /\ cpc' = [cpc EXCEPT ![p] = label]
    /\ carg' = [carg EXCEPT ![p] = a]

\* a goroutine returns from Close or CloseWithError with result r
CliCloseReturn(p, r) ==
    /\ cpc' = [cpc EXCEPT ![p] = "idle"]
    /\ carg' = [carg EXCEPT ![p] = NoArg]
    /\ cliLast' = IF carg[p].op = "Exit"
                  THEN cliLast
                  ELSE [op |-> carg[p].op, late |-> carg[p].late, res |-> r]
    /\ cliCloseOK' = IF carg[p].op # "Exit" /\ r = Nil
                     THEN cliCloseOK + 1
                     ELSE cliCloseOK

\* Close() line 110: called, about to wait for l
CliClose(p) ==
    /\ CliCall(p, "Close", [op |-> "Close", late |-> cliClosed])
    /\ UNCHANGED <<cliClosed, exit, l, exitCh, stdout, stderr, enc, cliHistory>>
    /\ UNCHANGED chan

\* CloseWithError(e) lines 74-85: nil goes to Close (line 76), anything else
\* is about to wait for l (line 86)
CliCloseWithError(p, e) ==
    /\ CliCall(p, IF e = Nil THEN "Close" ELSE "CloseWithError",
               [op |-> "CloseWithError", e |-> e, late |-> cliClosed])
    /\ UNCHANGED <<cliClosed, exit, l, exitCh, stdout, stderr, enc, cliHistory>>
    /\ UNCHANGED chan

\* Exit(code) line 226: called, about to wait for l (line 229)
CliExit(p, code) ==
    /\ CliCall(p, "Exit", [op |-> "Exit", code |-> code, late |-> cliClosed])
    /\ UNCHANGED <<cliClosed, exit, l, exitCh, stdout, stderr, enc, cliHistory>>
    /\ UNCHANGED chan

\* Exit lines 229-231: store the code under l; the deferred unlock runs, then
\* the deferred Close (line 227), whose result is dropped
ExitStore(p) ==
    /\ cpc[p] = "Exit"
    /\ l = NoOne
    /\ exit' = carg[p].code
    /\ cpc' = [cpc EXCEPT ![p] = "Close"]
    /\ UNCHANGED <<cliClosed, l, exitCh, stdout, stderr, carg, cliCalls,
                   enc, cliHistory>>
    /\ UNCHANGED chan

\* (mutant) close() without the check of closed in line 118
closeUnchecked(p) ==
    /\ l' = p
    /\ cpc' = [cpc EXCEPT ![p] = "closeSend"]
    /\ UNCHANGED <<carg, cliLast, cliCloseOK>>

\* close() lines 118-122, called with l held: a closed emitter returns an
\* error (and the caller's deferred unlock runs), an open one blocks in the
\* send on the exit channel, keeping l
close(p) ==
    IF cliClosed
    THEN /\ CliCloseReturn(p, ErrClosingClosedEmitter)
         /\ UNCHANGED l
    ELSE /\ l' = p
         /\ cpc' = [cpc EXCEPT ![p] = "closeSend"]
         /\ UNCHANGED <<carg, cliLast, cliCloseOK>>

\* Close lines 111-114: take l, call close()
CloseLock(p) ==
    /\ cpc[p] = "Close"
    /\ l = NoOne
    /\ close(p)
    /\ UNCHANGED <<cliClosed, exit, exitCh, stdout, stderr, cliCalls, sent,
                   chCloses, flushes, diag, output>>
    /\ UNCHANGED chan

\* (mutant) CloseWithError without the exit = 1 of line 93
CloseWithErrorLockKeepsExit(p, writeOK) ==
    /\ cpc[p] = "CloseWithError"
    /\ l = NoOne
    /\ IF cliClosed
       THEN /\ CliCloseReturn(p, ErrClosingClosed)
            /\ UNCHANGED <<diag, l>>
       ELSE IF writeOK
            THEN /\ diag' = diag + 1
                 /\ close(p)
            ELSE /\ CliCloseReturn(p, WriteErr)
                 /\ UNCHANGED <<diag, l>>
    /\ UNCHANGED <<cliClosed, exit, exitCh, stdout, stderr, cliCalls, sent,
                   chCloses, flushes, output>>
    /\ UNCHANGED chan

\* CloseWithError lines 86-100, e not nil: take l; a closed emitter returns
\* an error; else exit = 1 and the diagnostic is written to stderr, which
\* either fails (the write error is returned, line 97) or is followed by
\* close()
CloseWithErrorLock(p, writeOK) ==
    /\ cpc[p] = "CloseWithError"
    /\ l = NoOne
    /\ IF cliClosed
       THEN /\ CliCloseReturn(p, ErrClosingClosed)
            /\ UNCHANGED <<exit, diag, l>>
       ELSE /\ exit' = 1
            /\ IF writeOK
               THEN /\ diag' = diag + 1
                    /\ close(p)
               ELSE /\ CliCloseReturn(p, WriteErr)
                    /\ UNCHANGED <<diag, l>>
    /\ UNCHANGED <<cliClosed, exitCh, stdout, stderr, cliCalls, sent,
                   chCloses, flushes, output>>
    /\ UNCHANGED chan

\* close() lines 122-159 and the caller's deferred unlock: the exit code is
\* received from the channel, the channel is closed, the sinks are synced
\* (syncOK: without an error that is not ignored), and the deferred function
\* of line 125 clears the sinks and sets closed, whatever the sync did.
\* A send on a closed channel panics; the deferred unlock still runs.
closeSend(p, syncOK) ==
    /\ cpc[p] = "closeSend"
    /\ IF exitCh = "closed"
       THEN /\ cpc' = [cpc EXCEPT ![p] = "panicked"]
            /\ UNCHANGED <<cliClosed, exitCh, stdout, stderr, carg, sent,
                           chCloses, flushes, cliCloseOK, cliLast>>
       ELSE /\ sent' = Append(sent, exit)
            /\ exitCh' = "closed"
            /\ chCloses' = chCloses + 1
            /\ flushes' = flushes + 1
            /\ stdout' = "nil"
            /\ stderr' = "nil"
            /\ cliClosed' = TRUE
            /\ CliCloseReturn(p, IF syncOK THEN Nil ELSE SyncErr)
    /\ l' = NoOne
    /\ UNCHANGED <<exit, cliCalls, diag, output>>
    /\ UNCHANGED chan

\* SetEncoder lines 70-72: the encoder is rebuilt on re.stdout, without l
SetEncoder(p) ==
    /\ cpc[p] = "idle"
    /\ cliCalls < MaxCliCalls
    /\ cliCalls' = cliCalls + 1
    /\ enc' = IF stdout = "nil" THEN "nil" ELSE "stdout"
    /\ UNCHANGED <<cliClosed, exit, l, exitCh, stdout, stderr, cpc, carg,
                   cliHistory>>
    /\ UNCHANGED chan

\* Emit lines 162-194 for a value of kind k that is no channel: a Single is
\* unwrapped (line 165), then isClosed() looks at closed under l; a closed
\* emitter returns ErrClosedEmitter, an open one goes on to write with l
\* released.  from: the caller, NoArg or the EmitChan call that reads a
\* channel, to whose caller the error goes.
CliEmitValue(p, k, from) ==
    /\ l = NoOne
    /\ cliCalls < MaxCliCalls
    /\ cliCalls' = cliCalls + 1
    /\ IF cliClosed
       THEN /\ cpc' = [cpc EXCEPT ![p] = "idle"]
            /\ carg' = [carg EXCEPT ![p] = NoArg]
            /\ cliLastChan' = IF from.op = "EmitChan"
                              THEN [end |-> "none", res |-> ErrClosedEmitter]
                              ELSE cliLastChan
       ELSE /\ cpc' = [cpc EXCEPT ![p] = "EmitWrite"]
            /\ carg' = [carg EXCEPT ![p] = [op |-> "Emit", kind |-> k,
                                             from |-> from]]
            /\ UNCHANGED cliLastChan
    /\ UNCHANGED <<cliClosed, exit, l, exitCh, stdout, stderr, enc, sent,
                   chCloses, flushes, diag, written, cliCloseOK, cliLast,
                   sink>>
    /\ UNCHANGED chan

\* Emit(v), v a plain value, a Single or an io.Reader
CliEmit(p, k) ==
    /\ cpc[p] = "idle"
    /\ CliEmitValue(p, k, NoArg)

\* (mutant) Emit without the dispatch of lines 175-180: the channel is
\* written like any other value
CliEmitChanAsValue(p) ==
    /\ cpc[p] = "idle"
    /\ CliEmitValue(p, ChanKind, NoArg)

\* Emit(v), v a channel of values: lines 175-180 hand it to EmitChan before
\* closed is looked at.  n: the elements read from the channel so far.
CliEmitChan(p) ==
    /\ CliCall(p, "EmitChan", [op |-> "EmitChan", n |-> 0])
    /\ UNCHANGED <<cliClosed, exit, l, exitCh, stdout, stderr, enc,
                   cliHistory>>
    /\ UNCHANGED chan

\* EmitChan: the nested stream yields one more element, of kind k, which is
\* handed to Emit
CliEmitChanElem(p, k) ==
    /\ cpc[p] = "EmitChan"
    /\ CliEmitValue(p, k, [op |-> "EmitChan", n |-> carg[p].n + 1])

\* EmitChan: the nested stream ends with outcome e, which is the result of
\* the call
CliEmitChanEnd(p, e) ==
    /\ cpc[p] = "EmitChan"
    /\ cpc' = [cpc EXCEPT ![p] = "idle"]
    /\ carg' = [carg EXCEPT ![p] = NoArg]
    /\ cliLastChan' = [end |-> e, res |-> e]
    /\ UNCHANGED <<cliClosed, exit, l, exitCh, stdout, stderr, enc, cliCalls,
                   sent, chCloses, flushes, diag, written, cliCloseOK,
                   cliLast, sink>>
    /\ UNCHANGED chan

\* (mutant) the encoder, when there is one, gets every value
ViaEncoderFirst(k) ==
    IF enc # "none" THEN "encoder"
    ELSE IF k = ReaderKind THEN "copy" ELSE "line"

\* Emit lines 198-210, the sink dispatch: an io.Reader is copied to stdout;
\* any other value goes to the encoder when there is one, else to stdout as
\* a line of text
Via(k) ==
    IF k = ReaderKind THEN "copy"
    ELSE IF enc # "none" THEN "encoder" ELSE "line"

\* Emit lines 196-212: the write, made without l.  It succeeds or fails with
\* the sink's error, which Emit returns.  After close() has cleared
\* re.stdout the unsynchronized read of lines 200 and 208 gives nil (the
\* write panics) or the old writer; an encoder still holds the writer it was
\* built on, which is nil when it was built after the close.
EmitWrite(p, outcome) ==
    /\ cpc[p] = "EmitWrite"
    /\ outcome = "panicked" =>
          IF Via(carg[p].kind) = "encoder" THEN enc = "nil" ELSE stdout = "nil"
    /\ outcome # "panicked" /\ Via(carg[p].kind) = "encoder" => enc = "stdout"
    /\ cpc' = [cpc EXCEPT ![p] =
                  IF outcome = "panicked" THEN "panicked"
                  ELSE IF outcome = "written" /\ carg[p].from.op = "EmitChan"
                       THEN "EmitChan"
                       ELSE "idle"]
    /\ carg' = [carg EXCEPT ![p] =
                   IF outcome = "panicked" THEN carg[p]
                   ELSE IF outcome = "written" /\ carg[p].from.op = "EmitChan"
                        THEN carg[p].from
                        ELSE NoArg]
    /\ written' = IF outcome = "written" THEN written + 1 ELSE written
    /\ sink' = IF outcome = "panicked"
               THEN sink
               ELSE Append(sink,
                           [via |-> Via(carg[p].kind),
                            elem |-> IF carg[p].from.op = "EmitChan"
                                     THEN carg[p].from.n ELSE 0,
                            res |-> IF outcome = "written" THEN Nil
                                                           ELSE WriteErr])
    /\ cliLastChan' = IF outcome = "failed" /\ carg[p].from.op = "EmitChan"
                      THEN [end |-> "none", res |-> WriteErr]
                      ELSE cliLastChan
    /\ UNCHANGED <<cliClosed, exit, l, exitCh, stdout, stderr, enc, cliCalls,
                   sent, chCloses, flushes, diag, cliCloseOK, cliLast>>
    /\ UNCHANGED chan

\* ============================================================= behaviours
\* The stream under concurrent use: values and Singles are emitted, the
\* stream is closed, read and cancelled.
Next ==
    \/ \E w \in Writers, k \in {Plain, SingleKind} : Emit(w, k)
    \/ \E w \in Writers, r \in Readers : EmitSend(w, r)
    \/ \E w \in Writers : EmitCancel(w)
    \/ \E w \in Writers : EmitReturn(w)
    \/ \E w \in Writers : CallClose(w)
    \/ \E w \in Writers, e \in {Nil, Boom} : CloseWithError(w, e)
    \/ \E w \in Writers, n \in 1..MaxLength : SetLength(w, n)
    \/ \E r \in Readers : NextLock(r)
    \/ \E r \in Readers : NextClosed(r)
    \/ \E r \in Readers : NextCancel(r)
    \/ \E r \in Readers : NextReturn(r)
    \/ \E r \in Readers : Error(r)
    \/ \E r \in Readers : Length(r)
    \/ Cancel

Spec == Init /\ [][Next]_vars

\* The same, with channels of values emitted too.
NextChan ==
    \/ \E w \in Writers, k \in {Plain, SingleKind} : Emit(w, k)
    \/ \E w \in Writers : CallEmitChan(w)
    \/ \E w \in Writers, k \in {Plain, SingleKind} : EmitChanElem(w, k)
    \/ \E w \in Writers, e \in {Nil, Boom} : EmitChanEnd(w, e)
    \/ \E w \in Writers, r \in Readers : EmitSend(w, r)
    \/ \E w \in Writers : EmitCancel(w)
    \/ \E w \in Writers : EmitReturn(w)
    \/ \E w \in Writers : CallClose(w)
    \/ \E w \in Writers, e \in {Nil, Boom} : CloseWithError(w, e)
    \/ \E r \in Readers : NextLock(r)
    \/ \E r \in Readers : NextClosed(r)
    \/ \E r \in Readers : NextCancel(r)
    \/ \E r \in Readers : NextReturn(r)
    \/ Cancel

SpecChan == Init /\ [][NextChan]_vars

\* One producer that emits plain values and then calls Close, one consumer,
\* and a context that is never cancelled.
SeqEmit == CloseCalls = 0 /\ Emit("w1", Plain)
SeqClose == CloseCalls = 0 /\ CallClose("w1")

NextSeq ==
    \/ SeqEmit
    \/ EmitSend("w1", "r1")
    \/ EmitReturn("w1")
    \/ SeqClose
    \/ CloseWithError("w1", Nil)
    \/ \E n \in 1..MaxLength : SetLength("w1", n)
    \/ NextLock("r1")
    \/ NextClosed("r1")
    \/ NextReturn("r1")
    \/ Error("r1")
    \/ Length("r1")

SpecSeq == Init /\ [][NextSeq]_vars

\* Channels of values emitted on one of the two emitters: on the chan
\* stream, with values, closes, reads and cancellation, or on the CLI
\* emitter, with an encoder or none and closes.  A command runs under one
\* transport: the emitter that is not in use stays as constructed.
CliUntouched == cliCalls = 0
ChanUntouched ==
    /\ nextVal = 1
    /\ CloseCalls = 0
    /\ NextCalls = 0
    /\ ~ctxDone
    /\ lastChan.res = "none"
    /\ \A p \in Procs : pc[p] = "idle"

NextNested ==
    \/ \E w \in Writers, k \in {Plain, SingleKind} : CliUntouched /\ Emit(w, k)
    \/ \E w \in Writers : CliUntouched /\ CallEmitChan(w)
    \/ \E w \in Writers, k \in {Plain, SingleKind} :
           CliUntouched /\ EmitChanElem(w, k)
    \/ \E w \in Writers, e \in {Nil, Boom} : CliUntouched /\ EmitChanEnd(w, e)
    \/ \E w \in Writers, r \in Readers : CliUntouched /\ EmitSend(w, r)
    \/ \E w \in Writers : CliUntouched /\ EmitCancel(w)
    \/ \E w \in Writers : CliUntouched /\ EmitReturn(w)
    \/ \E w \in Writers : CliUntouched /\ CallClose(w)
    \/ \E w \in Writers, e \in {Nil, Boom} :
           CliUntouched /\ CloseWithError(w, e)
    \/ \E r \in Readers : CliUntouched /\ NextLock(r)
    \/ \E r \in Readers : CliUntouched /\ NextClosed(r)
    \/ \E r \in Readers : CliUntouched /\ NextCancel(r)
    \/ \E r \in Readers : CliUntouched /\ NextReturn(r)
    \/ CliUntouched /\ Cancel
    \/ \E p \in CliProcs : ChanUntouched /\ CliEmitChan(p)
    \/ \E p \in CliProcs, k \in {Plain, SingleKind, ReaderKind} :
           ChanUntouched /\ CliEmitChanElem(p, k)
    \/ \E p \in CliProcs, e \in {Nil, Boom} : ChanUntouched /\ CliEmitChanEnd(p, e)
    \/ \E p \in CliProcs, outcome \in {"written", "failed", "panicked"} :
           ChanUntouched /\ EmitWrite(p, outcome)
    \/ \E p \in CliProcs : ChanUntouched /\ SetEncoder(p)
    \/ \E p \in CliProcs : ChanUntouched /\ CliClose(p)
    \/ \E p \in CliProcs : ChanUntouched /\ CloseLock(p)
    \/ \E p \in CliProcs, syncOK \in BOOLEAN : ChanUntouched /\ closeSend(p, syncOK)

SpecNested == Init /\ [][NextNested]_vars

\* The CLI emitter under concurrent use
NextCLI ==
    \/ \E p \in CliProcs : CliClose(p)
    \/ \E p \in CliProcs, e \in {Nil, Boom} : CliCloseWithError(p, e)
    \/ \E p \in CliProcs, code \in 1..MaxCode : CliExit(p, code)
    \/ \E p \in CliProcs : ExitStore(p)
    \/ \E p \in CliProcs : CloseLock(p)
    \/ \E p \in CliProcs, writeOK \in BOOLEAN : CloseWithErrorLock(p, writeOK)
    \/ \E p \in CliProcs, syncOK \in BOOLEAN : closeSend(p, syncOK)
    \/ \E p \in CliProcs : SetEncoder(p)
    \/ \E p \in CliProcs, k \in {Plain, SingleKind, ReaderKind} : CliEmit(p, k)
    \/ \E p \in CliProcs, outcome \in {"written", "failed", "panicked"} :
           EmitWrite(p, outcome)

SpecCLI == Init /\ [][NextCLI]_vars

\* ------------------------------------------------------------ claims
\* values returned by Next, in the order they were returned
RECURSIVE ValuesOf(_)
ValuesOf(log) ==
    IF log = <<>> THEN <<>>
    ELSE IF Head(log).err = Nil THEN <<Head(log).val.v>> \o ValuesOf(Tail(log))
    ELSE ValuesOf(Tail(log))

Delivered == ValuesOf(nextLog)

\* a Next result that is the terminal outcome of the stream
IsTerminal(x) == x.err \in {EOF, Boom}

\* C1: with one producer, one consumer and no cancellation, the values
\* v1..vn passed to Emit before Close are returned by the successive Next
\* calls, in that order, none lost, duplicated or reordered, and every Next
\* after the n-th returns io.EOF.  (The i-th value passed to Emit is i.)
C1_EmitsThenEOF ==
    \A i \in 1..Len(nextLog) :
        IF i < nextVal
        THEN nextLog[i] = [val |-> [single |-> FALSE, v |-> i], err |-> Nil]
        ELSE nextLog[i] = [val |-> NoVal, err |-> EOF] /\ closeOK = 1

\* C1 happens: two values and then end-of-stream were read
C1_Witness ==
    /\ Len(nextLog) = 3
    /\ Delivered = <<1, 2>>
    /\ nextLog[3].err = EOF

\* a Close or CloseWithError call returns its error in this step
CloseFails == closeFail' = closeFail + 1

\* the failing close leaves the stream, the values in flight and the values
\* delivered as they are, and closes no channel
FailedCloseChangesNothing ==
    CloseFails =>
        /\ UNCHANGED <<closed, err, ch, wait, waitCloses, length, wl, rl, res, nextVal,
                       nextLog, emitLog, closeOK, autoClosed>>
        /\ \A p \in Procs : pc[p] # "CloseWithError" =>
                               pc'[p] = pc[p] /\ arg'[p] = arg[p]

\* C2 as claimed: among the Close/CloseWithError calls on one stream exactly
\* one returns nil and every other one an error, and a failed close changes
\* nothing.
C2_ExactlyOneCloseSucceeds ==
    /\ [](closeOK <= 1 /\ (CloseCompleted => closeOK = 1))
    /\ [][FailedCloseChangesNothing]_vars

\* C2 amended: at most one Close/CloseWithError call returns nil: exactly one
\* when no Emit of a Single closed the stream before, none when one did;
\* every other call returns an error, and a failed close changes nothing.
C2_OneCloseUnlessSingle ==
    /\ [](/\ closeOK <= 1
          /\ CloseCompleted => closeOK + (IF autoClosed THEN 1 ELSE 0) = 1
          /\ CloseCompleted => closed /\ ch = "closed" /\ wait = "closed")
    /\ [][FailedCloseChangesNothing]_vars

\* C2 happens: two closes raced, one returned nil and the other its error
C2_Witness == closeOK = 1 /\ closeFail = 1 /\ ~autoClosed


\* the i-th Next returned a value that was emitted as a Single
SingleAt(i) == nextLog[i].err = Nil /\ kinds[nextLog[i].val.v] = SingleKind

\* C3: a Single{v} emitted on an open stream is returned by exactly one Next,
\* unwrapped, and the Next that follows returns io.EOF (or the cancellation
\* error once the context is cancelled); the stream is closed with the
\* success outcome when that Emit returns, so no explicit Close succeeds.
C3_SingleThenEOF ==
    /\ \A i \in 1..Len(nextLog) :
          SingleAt(i) =>
              /\ ~nextLog[i].val.single
              /\ \A j \in 1..Len(nextLog) :
                    nextLog[j].val.v = nextLog[i].val.v => j = i
              /\ i < Len(nextLog) =>
                    /\ nextLog[i + 1].val = NoVal
                    /\ \/ nextLog[i + 1].err = EOF
                       \/ ctxDone /\ nextLog[i + 1].err = CtxErr
    /\ \A i \in 1..Len(emitLog) :
          kinds[emitLog[i]] = SingleKind =>
              /\ closed /\ ch = "closed" /\ err = EOF
              /\ autoClosed /\ closeOK = 0

\* C3 happens: v was read, then io.EOF, and the explicit Close failed
C3_Witness ==
    /\ Len(nextLog) = 2
    /\ SingleAt(1)
    /\ nextLog[2].err = EOF
    /\ closeFail = 1
    /\ ~ctxDone

\* C4 as claimed: an Emit made after a Close or CloseWithError has returned
\* does not panic, does not block in the send and returns ErrClosedEmitter.
C4_EmitAfterCloseFails ==
    \A w \in Writers :
        /\ pc[w] # "panicked"
        /\ CloseCompleted /\ pc[w] \in {"EmitSend", "EmitReturn"} =>
              pc[w] = "EmitReturn" /\ res[w] = ErrClosedEmitter

\* C5 as claimed: a CloseWithError called while an Emit is blocked in its
\* send can complete at once, whoever holds wl.
C5_CloseTakesPrecedence ==
    \A w \in Writers, c \in Writers :
        pc[w] = "EmitSend" /\ pc[c] = "CloseWithError" =>
            ENABLED (\E e \in {Nil, Boom} : CloseWithError(c, e))

\* an Emit returns the cancellation error in this step
EmitReturnsCancelled ==
    \E w \in Writers :
        pc[w] = "EmitReturn" /\ res[w] = CtxErr /\ pc'[w] # "EmitReturn"

\* a Next returns the cancellation error in this step
NextReturnsCancelled ==
    /\ Len(nextLog') = Len(nextLog) + 1
    /\ nextLog'[Len(nextLog')].err = CtxErr

\* C6 as claimed: an Emit or a Next that returns the cancellation error
\* leaves the stream open: closed, the value channel and the recorded
\* terminal error are what they were.
C6_CancelLeavesOpen ==
    [][EmitReturnsCancelled \/ NextReturnsCancelled =>
          UNCHANGED <<closed, ch, err>>]_vars

\* C7 as claimed: once the stream is closed, closed stays true and the
\* recorded terminal error stays the one given to the first successful
\* close, which is what Next reports.
C7_TerminalWriteOnce ==
    /\ [](closed => err \in {EOF, Boom})
    /\ [](\A i \in 1..Len(nextLog) :
             nextLog[i].err \notin {Nil, CtxErr} => nextLog[i].err = err)
    /\ [][closed => closed' /\ err' = err]_vars

Min(a, b) == IF a < b THEN a ELSE b

\* C8: under concurrent emitters, closers and readers, every value whose
\* Emit returned nil is returned by exactly one Next (or is held by the Next
\* that received it and is about to return it), the values are returned in
\* the order their Emit calls returned, and no Next returns a value after a
\* Next returned the terminal outcome.
C8_ExactlyOnceInOrder ==
    /\ \A i, j \in 1..Len(Delivered) : Delivered[i] = Delivered[j] => i = j
    /\ \A i \in 1..Len(emitLog) :
          \/ \E j \in 1..Len(Delivered) : Delivered[j] = emitLog[i]
          \/ \E r \in Readers :
                pc[r] = "NextReturn" /\ arg[r].got.v = emitLog[i]
    /\ \A i \in 1..Min(Len(emitLog), Len(Delivered)) :
          Delivered[i] = emitLog[i]
    /\ \A i, j \in 1..Len(nextLog) :
          i < j /\ IsTerminal(nextLog[i]) => nextLog[j].err # Nil

\* C8 happens: two Emits returned nil, both values were read, in order, and
\* the terminal outcome after them
C8_Witness ==
    /\ Len(emitLog) = 2
    /\ Delivered = emitLog
    /\ Len(nextLog) = 3
    /\ IsTerminal(nextLog[3])

\* C9: SetLength(n) records n while the ready signal has not fired and
\* changes nothing once it has; the length is frozen from then on, so every
\* Length() returns the same value, the one recorded when the signal fired.
C9_LengthFrozen ==
    /\ [](lastRead.op = "Length" => lastRead.val = length)
    /\ [](\A w \in Writers, n \in 1..MaxLength :
             pc[w] = "idle" /\ wl = NoOne =>
                 IF wait = "open"
                 THEN ENABLED (SetLength(w, n) /\ length' = n)
                 ELSE ENABLED (SetLength(w, n) /\ UNCHANGED vars))
    /\ [][wait = "closed" => wait' = "closed" /\ length' = length]_vars

\* C9 happens: a length was set in time, the stream was closed and Length()
\* returned it
C9_Witness ==
    /\ lastRead = [op |-> "Length", val |-> MaxLength]
    /\ closed

\* C10: on the CLI emitter at most one exit code is ever sent on the exit
\* channel and the channel is closed at most once, under any interleaving of
\* Close, CloseWithError, Exit and Emit; a close that returned nil has sent
\* exactly one code; every Close/CloseWithError called after a close has
\* completed returns an error and gets to no send, channel close or flush.
C10_OneExitCode ==
    /\ Len(sent) <= 1
    /\ chCloses <= 1
    /\ flushes <= 1
    /\ cliCloseOK > 0 => Len(sent) = 1
    /\ cliClosed => Len(sent) = 1 /\ exitCh = "closed"
    /\ cliLast.late => cliLast.res # Nil
    /\ \A p \in CliProcs :
          /\ cpc[p] = "panicked" => carg[p].op = "Emit"
          /\ carg[p].op \in {"Close", "CloseWithError"} /\ carg[p].late =>
                cpc[p] \notin {"closeSend", "panicked"}

\* C10 happens: an Emit wrote, an Exit stored its code, a close returned nil
\* and sent that code, and a Close or CloseWithError called after the close
\* returned an error
C10_Witness ==
    /\ written > 0
    /\ cliCloseOK = 1
    /\ cliLast.late
    /\ cliLast.res \in {ErrClosingClosed, ErrClosingClosedEmitter}
    /\ sent = <<MaxCode>>
    /\ chCloses = 1
    /\ flushes = 1


\* an Exit call made by p on an emitter that was not closed returns in this
\* step (its deferred Close returns)
ExitReturns(p) ==
    /\ carg[p].op = "Exit"
    /\ ~carg[p].late
    /\ cpc[p] \in {"Close", "closeSend"}
    /\ cpc'[p] = "idle"

\* C11 as claimed: when an Exit(code) called on an emitter that is not yet
\* closed returns, also when it raced with a Close or CloseWithError, the
\* one value received on the exit channel is code and the emitter is closed.
C11_ExitSendsItsCode ==
    [][\A p \in CliProcs :
          ExitReturns(p) => sent' = <<carg[p].code>> /\ cliClosed']_vars

\* an Emit of a Single writes its value to the sink in this step
SingleWritten ==
    \E p \in CliProcs :
        /\ cpc[p] = "EmitWrite"
        /\ carg[p].kind = SingleKind
        /\ cpc'[p] # "EmitWrite"
        /\ written' = written + 1

\* C13 as claimed: on the CLI emitter, as on the chan emitter, the Emit of a
\* Single that wrote its value to an open emitter closes the emitter with
\* the success outcome: the exit code is reported and the emitter is closed.
C13_CliSingleCloses ==
    [][SingleWritten /\ ~cliClosed => cliClosed' /\ Len(sent') = 1]_vars

\* C19 as claimed: once a Close or CloseWithError has completed no Emit
\* writes to the output sink, and no Emit uses the sink reference that close
\* has cleared.
C19_NoWriteAfterClose ==
    /\ [][written' # written => ~cliClosed]_vars
    /\ [](\A p \in CliProcs : cpc[p] = "panicked" => carg[p].op # "Emit")

\* a CloseWithError(e), e not nil, returns the error of the diagnostic write
\* in this step
DiagnosticWriteFails ==
    \E p \in CliProcs :
        /\ cpc[p] = "CloseWithError"
        /\ cpc'[p] = "idle"
        /\ ~cliClosed
        /\ cliLast'.res = WriteErr

\* C20 as claimed: a CloseWithError that fails because the diagnostic cannot
\* be written returns the write error and leaves the emitter as it was:
\* open, no exit code sent, the exit channel open, the stored exit code the
\* one held before the call.
C20_FailedDiagnosticChangesNothing ==
    [][DiagnosticWriteFails =>
          UNCHANGED <<cliClosed, exit, exitCh, sent, stdout, stderr>>]_vars


\* the close() called by p gets through its send and returns in this step
SendsCode(p) == cpc[p] = "closeSend" /\ cpc'[p] = "idle"

\* p is in a CloseWithError(e) with e not nil
WithError(p) == carg[p].op = "CloseWithError" /\ carg[p].e # Nil

\* C12: a CloseWithError(e), e not nil, that closes the emitter has written
\* exactly one diagnostic line and reports 1 on the exit channel, whatever
\* code was stored before; a Close or CloseWithError(nil) (or the Close of
\* Exit) that closes it has written no diagnostic and reports the stored
\* exit code, which is 0 unless an Exit or a CloseWithError stored another.
C12_DiagnosticAndStatus ==
    /\ [][\A p \in CliProcs :
             SendsCode(p) =>
                 IF WithError(p)
                 THEN sent' = <<1>> /\ diag' = 1
                 ELSE sent' = <<exit>> /\ diag' = 0]_vars
    /\ [][exit' # exit =>
             \E p \in CliProcs :
                 \/ cpc[p] = "Exit" /\ exit' = carg[p].code
                 \/ cpc[p] = "CloseWithError" /\ WithError(p) /\ exit' = 1]_vars
    /\ [][diag' # diag =>
             \E p \in CliProcs :
                 cpc[p] = "CloseWithError" /\ WithError(p) /\ diag' = diag + 1]_vars

\* C12 happens: an Exit had stored its code (and not yet closed), and a
\* CloseWithError(e) returned nil after one diagnostic line and the code 1
C12_Witness ==
    /\ sent = <<1>>
    /\ diag = 1
    /\ cliLast = [op |-> "CloseWithError", late |-> FALSE, res |-> Nil]
    /\ \E p \in CliProcs : carg[p].op = "Exit" /\ cpc[p] = "Close"


\* the Emit of p performs its write and returns in this step
EmitWrites(p) ==
    /\ cpc[p] = "EmitWrite"
    /\ cpc'[p] \notin {"EmitWrite", "panicked"}

\* the last thing done to stdout
LastOp(log) == log[Len(log)]

\* C15: the write of an Emit on the CLI emitter is one operation on stdout:
\* a copy that does not go through the encoder, even when one is
\* configured, for an io.Reader; for any other value one call of the
\* encoder when one is configured and one line of text when none is; its
\* error is what Emit returns, and it does not close the emitter.
C15_SinkDispatch ==
    [][\A p \in CliProcs :
          EmitWrites(p) =>
              /\ Len(sink') = Len(sink) + 1
              /\ SubSeq(sink', 1, Len(sink)) = sink
              /\ LastOp(sink').via =
                    IF carg[p].kind = ReaderKind THEN "copy"
                    ELSE IF enc = "none" THEN "line" ELSE "encoder"
              /\ written' = written + (IF LastOp(sink').res = Nil THEN 1 ELSE 0)
              /\ LastOp(sink').res # Nil =>
                    /\ cpc'[p] = "idle"
                    /\ carg[p].from.op = "EmitChan" =>
                          cliLastChan'.res = LastOp(sink').res
              /\ UNCHANGED <<cliClosed, exit, exitCh, sent, enc>>]_vars

\* C15 happens: a value was written as a line, an encoder was configured
\* and encoded a value, then an io.Reader was copied past the encoder and
\* the copy failed, and the emitter is open
C15_Witness ==
    /\ Len(sink) = 3
    /\ sink[1] = [via |-> "line", elem |-> 0, res |-> Nil]
    /\ sink[2] = [via |-> "encoder", elem |-> 0, res |-> Nil]
    /\ sink[3] = [via |-> "copy", elem |-> 0, res |-> WriteErr]
    /\ enc = "stdout"
    /\ ~cliClosed


\* p's EmitChan hands the next element of its channel to Emit in this step
CliElemEmitted(p) == cpc[p] = "EmitChan" /\ cpc'[p] = "EmitWrite"

C16_ReadySignalLatch ==
    /\ [](/\ waitCloses <= 1
          /\ wait = "closed" <=> waitCloses = 1
          /\ wait = "closed" <=> (nextVal > 1 \/ closed)
          /\ \A r \in Readers :
                pc[r] = "idle" =>
                    /\ ENABLED Error(r) <=> wait = "closed"
                    /\ ENABLED Length(r) <=> wait = "closed")
    /\ [][wait = "closed" => wait' = "closed"]_vars

\* C16 happens: the first Emit fired the signal, the close that followed
\* left it as it was, and Error() returned
C16_Witness ==
    /\ closeOK = 1
    /\ nextVal = 2
    /\ emitLog = <<1>>
    /\ lastRead.op = "Error"
    /\ waitCloses = 1


\* C17 as claimed: whenever Error() or Next() can read the recorded terminal
\* error, the stream is closed, so the read cannot meet the write of
\* closeWithError.
C17_ErrReadOnlyWhenClosed ==
    \A r \in Readers :
        /\ pc[r] = "idle" /\ ENABLED Error(r) => closed
        /\ ENABLED NextClosed(r) => closed


\* C18: wl is held only by a goroutine inside Emit and rl only by one
\* inside Next, so no operation holds both; while a Next is blocked on the
\* open stream a SetLength or a CloseWithError that finds wl free completes
\* whatever the reader does, and a Next blocked on the closed stream can
\* return, with the terminal outcome.
C18_LocksNeverNested ==
    /\ wl \in Writers \cup {NoOne}
    /\ rl \in Readers \cup {NoOne}
    /\ \A p \in Procs : ~(wl = p /\ rl = p)
    /\ \A w \in Writers : wl = w => pc[w] \in {"EmitSend", "EmitReturn"}
    /\ \A r \in Readers : rl = r => pc[r] \in {"NextRecv", "NextReturn"}
    /\ \A r \in Readers :
          pc[r] = "NextRecv" =>
              /\ rl = r
              /\ \A w \in Writers :
                    /\ pc[w] = "CloseWithError" /\ wl = NoOne =>
                          \A e \in {Nil, Boom} : ENABLED CloseWithError(w, e)
                    /\ pc[w] = "idle" /\ wl = NoOne =>
                          \A n \in 1..MaxLength : ENABLED SetLength(w, n)
              /\ ch = "closed" => ENABLED NextClosed(r)
    /\ \A i \in 1..Len(nextLog) : IsTerminal(nextLog[i]) => ch = "closed"

\* C18 happens: a Next holds rl, blocked on the open stream on which no
\* value was emitted, and a CloseWithError call finds wl free
C18_Witness ==
    /\ pc["r1"] = "NextRecv"
    /\ rl = "r1"
    /\ ch = "open"
    /\ nextVal = 1
    /\ pc["w1"] = "CloseWithError"
    /\ wl = NoOne

====
